---- MODULE Spec2Model ----
(***************************************************************************)
(* The training controller of alphazero/Coach.py: the learn loop with its  *)
(* model gating, and the batched-inference hand-off between the            *)
(* coordinator (processSelfPlayBatches) and the self-play agents.          *)
(*                                                                         *)
(* Win rates are percentages (0.52 is 52).  Network weights are tokens:    *)
(* 0 is the freshly constructed network, -(k+1) the content of a           *)
(* checkpoint file k found on disk at start-up, and c >= 1 the weights     *)
(* produced by the training run of loop pass c (const_i).                  *)
(***************************************************************************)
EXTENDS Integers, Sequences, FiniteSets, TLC

\* ------------------------------------------------------------- bounds
NumIters == 3
MaxWorkers == 2
MaxGatingIters == 3
MaxPastCompareFreq == 2
MaxNetworks == 2
MaxEvalsPerGame == 1
MaxTrainIteration == 14
MaxTrainHistory == 12

\* gamesPerIteration: one game for each worker of the largest pool
GamesPerIteration == MaxWorkers

\* -------------------------------------------------- program constants
MinNextModelWinrate == 52
NumWarmupIters == 1
SkipSelfPlayIters == 0
NumItersForTrainExamplesHistory == 10

\* arena.play_games returns a win rate; the values on both sides of the
\* threshold and the threshold itself
WinRates == {40, 52, 60}

VARIABLES
    args,            \* the mutable configuration (self.args)
    nnet, pnet,      \* weights loaded in the live and the comparison network
    checkpoint,      \* checkpoint files on disk: iteration index -> weights
    shards,          \* sample shards on disk: iteration index -> the loop pass
                     \* (const_i) that wrote it, 0 for a shard of an earlier run
    datasets,        \* local of train(): the shard indices loaded, in order
    current_iter, gating_counter, warmup,
    pc,              \* position of learn()
    const_i, i,      \* locals of learn()
    past, winrate,   \* locals of compareToPast()
    gate,            \* branch compareToPast took in this loop pass
    removed,         \* checkpoint files os.remove deleted in this loop pass
    error,           \* the exception that ended learn(), "none" while it runs
    agents,          \* the SelfPlayAgent processes
    input_tensors, policy_tensors, value_tensors, batch_ready,
    ready_queue, file_queue, result_queue, completed, games_played,
    cpc,             \* position inside processSelfPlayBatches
    id, policy, value, n   \* locals of processSelfPlayBatches

confVars == <<args>>
netVars == <<nnet, pnet, checkpoint, shards>>
trainVars == <<datasets>>
loopVars == <<current_iter, gating_counter, warmup, pc, const_i, i, past, winrate, gate, removed, error>>
slotVars == <<input_tensors, policy_tensors, value_tensors, batch_ready>>
poolVars == <<agents, ready_queue, file_queue, result_queue, completed, games_played>>
batchVars == <<cpc, id, policy, value, n>>
vars == <<confVars, netVars, trainVars, loopVars, slotVars, poolVars, batchVars>>

\* --------------------------------------------------------- helpers
Max(a, b) == IF a >= b THEN a ELSE b
Min(a, b) == IF a <= b THEN a ELSE b

\* Python lists are indexed from 0, sequences from 1
At(list, k) == list[k + 1]
Put(list, k, v) == [list EXCEPT ![k + 1] = v]

Exists(k) == k \in DOMAIN checkpoint

\* ------------------------------------------------------ construction
\* Coach.__init__ with load_model: found is the number of files under the
\* checkpoint folder
StartIter(found) == IF found = 0 THEN 1 ELSE found

FilesAtStart(found) ==
    IF found = 0 THEN (0 :> 0) ELSE [k \in 0..(found - 1) |-> 0 - (k + 1)]

\* the state Coach.__init__ leaves, for one configuration
Constructed(found, w, mg, mx, f, am) ==
    /\ args = [startIter |-> StartIter(found), workers |-> w,
               model_gating |-> mg, max_gating_iters |-> mx,
               pastCompareFreq |-> f, arenaBatched |-> TRUE, arenaMCTS |-> am,
               numItersForTrainExamplesHistory |-> NumItersForTrainExamplesHistory]
    /\ checkpoint = FilesAtStart(found)
    /\ nnet = FilesAtStart(found)[StartIter(found) - 1]
    /\ shards = [k \in 1..(StartIter(found) - 1) |-> 0]
    /\ datasets = <<>>
    /\ current_iter = StartIter(found)
    /\ const_i = StartIter(found)
    /\ pnet = 0
    /\ gating_counter = 0
    /\ warmup = FALSE
    /\ pc = "while"
    /\ i = 0 /\ past = 0 /\ winrate = 0 /\ gate = "none" /\ removed = {}
    /\ error = "none"
    /\ agents = <<>>
    /\ input_tensors = <<>> /\ policy_tensors = <<>> /\ value_tensors = <<>>
    /\ batch_ready = <<>>
    /\ ready_queue = <<>> /\ file_queue = 0 /\ result_queue = 0
    /\ completed = 0 /\ games_played = 0
    /\ cpc = "idle" /\ id = 0 /\ policy = 0 /\ value = 0 /\ n = 0

\* every gating configuration, one self-play worker
Init ==
    \E found \in {0, MaxNetworks}, mg \in BOOLEAN, mx \in 0..MaxGatingIters,
       f \in 1..MaxPastCompareFreq, am \in BOOLEAN :
        Constructed(found, 1, mg, mx, f, am)

\* a run resumed from MaxNetworks checkpoints with model gating on, every
\* retry bound and comparison frequency, the arena settings of DEFAULT_ARGS
\* (arenaBatched and arenaMCTS both True)
GatedInit ==
    \E mx \in 0..MaxGatingIters, f \in 1..MaxPastCompareFreq :
        Constructed(MaxNetworks, 1, TRUE, mx, f, TRUE)

\* every worker count, in a run resumed at its last iteration (NumIters
\* checkpoints found) with gating on, one retry allowed, and the other
\* settings of DEFAULT_ARGS
PoolInit ==
    \E w \in 1..MaxWorkers : Constructed(NumIters, w, TRUE, 1, 1, TRUE)

\* the call train(iteration) on a Coach constructed from `iteration`
\* checkpoint files, with the shards 1..iteration in the data folder, for
\* every iteration and every history setting
TrainInit ==
    \E iteration \in 1..MaxTrainIteration, history \in 1..MaxTrainHistory :
        /\ args = [startIter |-> iteration, workers |-> 1,
                   model_gating |-> TRUE, max_gating_iters |-> MaxGatingIters,
                   pastCompareFreq |-> 1, arenaBatched |-> TRUE, arenaMCTS |-> TRUE,
                   numItersForTrainExamplesHistory |-> history]
        /\ checkpoint = FilesAtStart(iteration)
        /\ nnet = FilesAtStart(iteration)[iteration - 1]
        /\ shards = [k \in 1..iteration |-> 0]
        /\ datasets = <<>>
        /\ current_iter = iteration /\ const_i = iteration /\ i = iteration
        /\ pnet = 0
        /\ gating_counter = 0
        /\ warmup = FALSE
        /\ pc = "train"
        /\ past = 0 /\ winrate = 0 /\ gate = "none" /\ removed = {}
        /\ error = "none"
        /\ agents = <<>>
        /\ input_tensors = <<>> /\ policy_tensors = <<>> /\ value_tensors = <<>>
        /\ batch_ready = <<>>
        /\ ready_queue = <<>> /\ file_queue = 0 /\ result_queue = 0
        /\ completed = 0 /\ games_played = 0
        /\ cpc = "idle" /\ id = 0 /\ policy = 0 /\ value = 0 /\ n = 0

\* ---------------------------------------------------------- learn()
\* mutant: the exception is recorded and the loop goes on
RaiseLogged(e) == pc' = pc /\ error' = e

Raise(e) == pc' = "aborted" /\ error' = e

\* while self.current_iter <= self.args.numIters: ... warm-up flag.
\* The locals of the previous compareToPast call are gone (past, winrate).
LoopHead ==
    /\ pc = "while"
    /\ IF current_iter <= NumIters
       THEN /\ i' = current_iter
            /\ warmup' = (const_i <= NumWarmupIters)
            /\ pc' = IF const_i > SkipSelfPlayIters THEN "generate" ELSE "train"
       ELSE /\ pc' = "closed"
            /\ UNCHANGED <<i, warmup>>
    /\ gate' = "none" /\ removed' = {} /\ past' = 0 /\ winrate' = 0
    /\ UNCHANGED <<confVars, trainVars, netVars, current_iter, gating_counter, const_i, error,
                   slotVars, poolVars, batchVars>>

\* ------------------------------------------- generateSelfPlayAgents()
Quota == GamesPerIteration \div args.workers

NewAgent(k) == [id |-> k, pc |-> "search", games |-> 0, evals |-> 0]

Zeros(count) == [k \in 1..count |-> 0]

GenerateSelfPlayAgents ==
    /\ pc = "generate"
    /\ ready_queue' = <<>>
    /\ input_tensors' = input_tensors \o Zeros(args.workers)
    /\ policy_tensors' = policy_tensors \o Zeros(args.workers)
    /\ value_tensors' = value_tensors \o Zeros(args.workers)
    /\ batch_ready' = batch_ready \o [k \in 1..args.workers |-> FALSE]
    /\ agents' = agents \o [k \in 1..args.workers |-> NewAgent(k - 1)]
    /\ pc' = "batch" /\ cpc' = "while" /\ n' = 0
    /\ UNCHANGED <<confVars, trainVars, netVars, current_iter, gating_counter, warmup, const_i, i,
                   past, winrate, gate, removed, error, file_queue, result_queue,
                   completed, games_played, id, policy, value>>

\* ------------------------------------------------ saveIterationSamples()
\* mutant: every pass writes the shard files of iteration 1
ShardIndexFirst(iteration) == 1

\* the shard files are named after the iteration: get_iter_file(iteration)
ShardIndex(iteration) == iteration

SaveIterationSamples ==
    /\ pc = "save"
    /\ file_queue' = 0
    /\ shards' = (ShardIndex(i) :> const_i) @@ shards
    /\ pc' = "results"
    /\ UNCHANGED <<confVars, trainVars, nnet, pnet, checkpoint, current_iter, gating_counter, warmup,
                   const_i, i, past, winrate, gate, removed, error, slotVars, agents,
                   ready_queue, result_queue, completed, games_played, batchVars>>

\* --------------------------------------------------- processGameResults()
ProcessGameResults ==
    /\ pc = "results"
    /\ IF result_queue = 0
       THEN Raise("ZeroDivisionError") /\ UNCHANGED result_queue
       ELSE result_queue' = 0 /\ pc' = "kill" /\ UNCHANGED error
    /\ UNCHANGED <<confVars, trainVars, netVars, current_iter, gating_counter, warmup, const_i, i,
                   past, winrate, gate, removed, slotVars, agents, ready_queue,
                   file_queue, completed, games_played, batchVars>>

\* --------------------------------------------------- killSelfPlayAgents()
\* mutant: the agents are joined, nothing is released or reset
KillWithoutRelease ==
    /\ pc = "kill"
    /\ \A k \in 1..args.workers : agents[k].pc = "done"
    /\ pc' = "train"
    /\ UNCHANGED <<confVars, trainVars, netVars, current_iter, gating_counter, warmup, const_i, i,
                   past, winrate, gate, removed, error, slotVars, poolVars, batchVars>>

\* join() returns once the agent process has ended
KillSelfPlayAgents ==
    /\ pc = "kill"
    /\ \A k \in 1..args.workers : agents[k].pc = "done"
    /\ agents' = <<>>
    /\ input_tensors' = <<>> /\ policy_tensors' = <<>> /\ value_tensors' = <<>>
    /\ batch_ready' = <<>>
    /\ ready_queue' = <<>>
    /\ completed' = 0 /\ games_played' = 0
    /\ pc' = "train"
    /\ UNCHANGED <<confVars, trainVars, netVars, current_iter, gating_counter, warmup, const_i, i,
                   past, winrate, gate, removed, error, file_queue, result_queue,
                   batchVars>>

\* ---------------------------------------------------------------- train()
\* mutant: the window is the configured history, whatever the iteration
CurrentHistorySizeFixed(iteration) == args.numItersForTrainExamplesHistory

CurrentHistorySize(iteration) ==
    Min(Max(4, (iteration + 4) \div 2), args.numItersForTrainExamplesHistory)

\* the first index of range(max(1, iteration - currentHistorySize), iteration + 1)
FirstShard(iteration) == Max(1, iteration - CurrentHistorySize(iteration))

TrainWindow(iteration) == FirstShard(iteration)..iteration

\* the datasets list after the loading loop: one entry per shard, in the
\* order of the range
Loaded(iteration) ==
    [p \in 1..(iteration + 1 - FirstShard(iteration)) |-> FirstShard(iteration) + p - 1]

\* the weights nnet.train leaves in the live network in loop pass c
Trained(c) == c

Train ==
    /\ pc = "train"
    /\ IF TrainWindow(i) \subseteq DOMAIN shards
       THEN /\ datasets' = Loaded(i)
            /\ nnet' = Trained(const_i)
            /\ checkpoint' = (i :> Trained(const_i)) @@ checkpoint
            /\ pc' = "random"
            /\ UNCHANGED error
       ELSE Raise("FileNotFoundError") /\ UNCHANGED <<nnet, checkpoint, datasets>>
    /\ UNCHANGED <<confVars, pnet, shards, current_iter, gating_counter, warmup, const_i,
                   i, past, winrate, gate, removed, slotVars, poolVars, batchVars>>

\* ------------------------------------------------------ compareToRandom()
\* the condition of the call of compareToPast (compareWithPast is True)
ComparePastDue ==
    ~warmup /\ (const_i - 1) % args.pastCompareFreq = 0

\* compareToRandom plays arena games against a random player; only a
\* metric is written
CompareToRandom ==
    /\ pc = "random"
    /\ pc' = IF ComparePastDue THEN "past" ELSE "advance"
    /\ UNCHANGED <<confVars, trainVars, netVars, current_iter, gating_counter, warmup, const_i, i,
                   past, winrate, gate, removed, error, slotVars, poolVars, batchVars>>

\* -------------------------------------------------------- compareToPast()
\* mutant: the comparison is always with the checkpoint just before
PastIterPrevious(iteration, freq) == Max(0, iteration - 1)

PastIter(iteration, freq) == Max(0, iteration - freq)

\* load the past checkpoint into pnet, then the batched-arena configuration
\* check, which raises UserWarning after forcing arenaMCTS
ComparePastSetup ==
    /\ pc = "past"
    /\ past' = PastIter(i, args.pastCompareFreq)
    /\ IF ~Exists(past')
       THEN Raise("FileNotFoundError") /\ UNCHANGED <<pnet, args>>
       ELSE /\ pnet' = checkpoint[past']
            /\ IF args.arenaBatched /\ ~args.arenaMCTS
               THEN args' = [args EXCEPT !.arenaMCTS = TRUE] /\ Raise("UserWarning")
               ELSE pc' = "arena" /\ UNCHANGED <<args, error>>
    /\ UNCHANGED <<nnet, checkpoint, shards, trainVars, current_iter, gating_counter, warmup, const_i,
                   i, winrate, gate, removed, slotVars, poolVars, batchVars>>

\* arena.play_games(self.args.arenaCompare); winrate = winrates[0]
ArenaPlayGames ==
    /\ pc = "arena"
    /\ \E wr \in WinRates : winrate' = wr
    /\ pc' = "gate"
    /\ UNCHANGED <<confVars, trainVars, netVars, current_iter, gating_counter, warmup, const_i, i,
                   past, gate, removed, error, slotVars, poolVars, batchVars>>

\* mutants of the gating condition: the win rate is not looked at; the
\* counter may pass the bound by one more; the counter is not bounded; the
\* threshold itself is rejected
GateRollbackAnyRate(mg, wr, mx, gc) ==
    mg /\ mx # 0 /\ gc <= mx

GateRollbackLate(mg, wr, mx, gc) ==
    mg /\ wr < MinNextModelWinrate /\ mx # 0 /\ gc <= mx + 1

GateRollbackUnbounded(mg, wr, mx, gc) ==
    mg /\ wr < MinNextModelWinrate /\ mx # 0

GateRollbackInclusive(mg, wr, mx, gc) ==
    mg /\ wr <= MinNextModelWinrate /\ mx # 0 /\ gc <= mx

\* the condition of the model-gating if
GateRollback(mg, wr, mx, gc) ==
    mg /\ wr < MinNextModelWinrate /\ mx # 0 /\ gc <= mx

Gate ==
    /\ pc = "gate"
    /\ IF GateRollback(args.model_gating, winrate, args.max_gating_iters, gating_counter)
       THEN pc' = "reload" /\ gate' = "rollback" /\ UNCHANGED gating_counter
       ELSE pc' = "advance" /\ gate' = "accept" /\ gating_counter' = 0
    /\ UNCHANGED <<confVars, trainVars, netVars, current_iter, warmup, const_i, i, past, winrate,
                   removed, error, slotVars, poolVars, batchVars>>

\* mutant: the rejected checkpoint itself is loaded again
RollbackSourceRejected(iteration, before) == iteration

\* self.nnet.load_checkpoint(..., get_iter_file(past))
RollbackSource(iteration, before) == before

RollbackReload ==
    /\ pc = "reload"
    /\ IF Exists(RollbackSource(i, past))
       THEN nnet' = checkpoint[RollbackSource(i, past)] /\ pc' = "remove" /\ UNCHANGED error
       ELSE Raise("FileNotFoundError") /\ UNCHANGED nnet
    /\ UNCHANGED <<confVars, trainVars, pnet, checkpoint, shards, current_iter, gating_counter, warmup,
                   const_i, i, past, winrate, gate, removed, slotVars, poolVars, batchVars>>

\* mutant: the file of the checkpoint just loaded is the one removed
RemovedFilePast(iteration, before) == before

\* os.remove(... get_iter_file(iteration)); current_iter = past; gating_counter += 1
RemovedFile(iteration, before) == iteration

\* mutant: the counter is set so that the same iteration is repeated
RewoundIterSame(iteration, before) == iteration - 1

\* self.current_iter = past
RewoundIter(iteration, before) == before

RollbackRemove ==
    /\ pc = "remove"
    /\ IF Exists(RemovedFile(i, past))
       THEN /\ checkpoint' = [k \in DOMAIN checkpoint \ {RemovedFile(i, past)} |-> checkpoint[k]]
            /\ removed' = removed \cup {RemovedFile(i, past)}
            /\ current_iter' = RewoundIter(i, past)
            /\ gating_counter' = gating_counter + 1
            /\ pc' = "advance"
            /\ UNCHANGED error
       ELSE Raise("FileNotFoundError")
            /\ UNCHANGED <<checkpoint, removed, current_iter, gating_counter>>
    /\ UNCHANGED <<confVars, trainVars, nnet, pnet, shards, warmup, const_i, i, past, winrate, gate,
                   slotVars, poolVars, batchVars>>

\* end of the loop body: self.current_iter += 1; const_i += 1
\* (expertValueWeight.current stays at 0: start = end = 0)
Advance ==
    /\ pc = "advance"
    /\ current_iter' = current_iter + 1
    /\ const_i' = const_i + 1
    /\ pc' = "while"
    /\ UNCHANGED <<confVars, trainVars, netVars, gating_counter, warmup, i, past, winrate, gate,
                   removed, error, slotVars, poolVars, batchVars>>

\* ------------------------------------------------------- SelfPlayAgent
\* One agent process.  Its code is alphazero/SelfPlayAgent.py; the steps
\* below follow the worker contract: fill the input buffer, push the own
\* id on the ready queue, block on the own event, read the outputs.
SetAgent(k, a) == agents' = [agents EXCEPT ![k] = a]

\* the observation batch an agent submits with its next request
Observation(a) == 100 * (a.id + 1) + a.games * MaxEvalsPerGame + a.evals

\* the network evaluation nnet.process(batch) -> (policy, value)
NetProcess(x) == [policy |-> 2 * x, value |-> 2 * x + 1]

AgentBeginWrite(k) ==
    /\ k \in DOMAIN agents
    /\ agents[k].pc = "search"
    /\ agents[k].games < Quota
    /\ agents[k].evals < MaxEvalsPerGame
    /\ SetAgent(k, [agents[k] EXCEPT !.pc = "writing"])
    /\ UNCHANGED <<confVars, trainVars, netVars, loopVars, slotVars, ready_queue, file_queue,
                   result_queue, completed, games_played, batchVars>>

AgentNotify(k) ==
    /\ k \in DOMAIN agents
    /\ agents[k].pc = "writing"
    /\ input_tensors' = Put(input_tensors, agents[k].id, Observation(agents[k]))
    /\ ready_queue' = Append(ready_queue, agents[k].id)
    /\ SetAgent(k, [agents[k] EXCEPT !.pc = "waiting"])
    /\ UNCHANGED <<confVars, trainVars, netVars, loopVars, policy_tensors, value_tensors, batch_ready,
                   file_queue, result_queue, completed, games_played, batchVars>>

\* batch_ready.wait() returns; batch_ready.clear()
AgentResume(k) ==
    /\ k \in DOMAIN agents
    /\ agents[k].pc = "waiting"
    /\ At(batch_ready, agents[k].id)
    /\ batch_ready' = Put(batch_ready, agents[k].id, FALSE)
    /\ SetAgent(k, [agents[k] EXCEPT !.pc = "reading"])
    /\ UNCHANGED <<confVars, trainVars, netVars, loopVars, input_tensors, policy_tensors,
                   value_tensors, ready_queue, file_queue, result_queue, completed,
                   games_played, batchVars>>

AgentRead(k) ==
    /\ k \in DOMAIN agents
    /\ agents[k].pc = "reading"
    /\ SetAgent(k, [agents[k] EXCEPT !.pc = "search", !.evals = @ + 1])
    /\ UNCHANGED <<confVars, trainVars, netVars, loopVars, slotVars, ready_queue, file_queue,
                   result_queue, completed, games_played, batchVars>>

\* a game ends: its samples and its result go to the sinks
AgentFinishGame(k) ==
    /\ k \in DOMAIN agents
    /\ agents[k].pc = "search"
    /\ agents[k].games < Quota
    /\ SetAgent(k, [agents[k] EXCEPT !.games = @ + 1, !.evals = 0])
    /\ file_queue' = file_queue + 1
    /\ result_queue' = result_queue + 1
    /\ games_played' = games_played + 1
    /\ UNCHANGED <<confVars, trainVars, netVars, loopVars, slotVars, ready_queue, completed,
                   batchVars>>

\* quota exhausted: complete_count += 1 and the process ends
AgentComplete(k) ==
    /\ k \in DOMAIN agents
    /\ agents[k].pc = "search"
    /\ agents[k].games = Quota
    /\ SetAgent(k, [agents[k] EXCEPT !.pc = "done"])
    /\ completed' = completed + 1
    /\ UNCHANGED <<confVars, trainVars, netVars, loopVars, slotVars, ready_queue, file_queue,
                   result_queue, games_played, batchVars>>

Agent(k) ==
    \/ AgentBeginWrite(k)
    \/ AgentNotify(k)
    \/ AgentResume(k)
    \/ AgentRead(k)
    \/ AgentFinishGame(k)
    \/ AgentComplete(k)

\* ------------------------------------------------ processSelfPlayBatches()
\* while self.completed.value != self.args.workers
BatchLoopCheck ==
    /\ pc = "batch" /\ cpc = "while"
    /\ IF completed # args.workers
       THEN cpc' = "get" /\ UNCHANGED pc
       ELSE cpc' = "idle" /\ pc' = "save"
    /\ UNCHANGED <<confVars, trainVars, netVars, current_iter, gating_counter, warmup, const_i, i,
                   past, winrate, gate, removed, error, slotVars, poolVars, id, policy,
                   value, n>>

\* mutant: get() without a timeout never raises Empty
GetBlocks(queue) == FALSE

\* ready_queue.get(timeout=1) raises Empty when nothing arrived in time
GetTimesOut(queue) == queue = <<>>

QueueGet ==
    /\ pc = "batch" /\ cpc = "get"
    /\ IF GetTimesOut(ready_queue)
       THEN cpc' = "progress" /\ UNCHANGED <<id, ready_queue>>
       ELSE /\ ready_queue # <<>>
            /\ id' = Head(ready_queue)
            /\ ready_queue' = Tail(ready_queue)
            /\ cpc' = "process"
    /\ UNCHANGED <<confVars, trainVars, netVars, loopVars, slotVars, agents, file_queue,
                   result_queue, completed, games_played, policy, value, n>>

\* mutant: the event is set before the value is copied
AfterStepEarlySet(step) ==
    CASE step = "process" -> "copy_policy"
      [] step = "copy_policy" -> "set"
      [] step = "set" -> "copy_value"
      [] step = "copy_value" -> "progress"

\* mutant: the event is never set
AfterStepNoSet(step) ==
    CASE step = "process" -> "copy_policy"
      [] step = "copy_policy" -> "copy_value"
      [] step = "copy_value" -> "progress"
      [] step = "set" -> "progress"

\* the order of the statements of the try block
AfterStep(step) ==
    CASE step = "process" -> "copy_policy"
      [] step = "copy_policy" -> "copy_value"
      [] step = "copy_value" -> "set"
      [] step = "set" -> "progress"

\* mutant: the first slot is used whatever id was popped
SlotFirst(popped) == 0

\* the list index the try block uses for the popped id
SlotOf(popped) == popped

\* policy, value = self.nnet.process(self.input_tensors[id])
Process ==
    /\ pc = "batch" /\ cpc = "process"
    /\ policy' = NetProcess(At(input_tensors, SlotOf(id))).policy
    /\ value' = NetProcess(At(input_tensors, SlotOf(id))).value
    /\ cpc' = AfterStep("process")
    /\ UNCHANGED <<confVars, trainVars, netVars, loopVars, slotVars, poolVars, id, n>>

\* the evaluation function raises: the exception leaves learn()
ProcessRaises ==
    /\ pc = "batch" /\ cpc = "process"
    /\ Raise("EvaluationError")
    /\ UNCHANGED <<confVars, trainVars, netVars, current_iter, gating_counter, warmup, const_i, i,
                   past, winrate, gate, removed, slotVars, poolVars, batchVars>>

CopyPolicy ==
    /\ pc = "batch" /\ cpc = "copy_policy"
    /\ policy_tensors' = Put(policy_tensors, SlotOf(id), policy)
    /\ cpc' = AfterStep("copy_policy")
    /\ UNCHANGED <<confVars, trainVars, netVars, loopVars, input_tensors, value_tensors, batch_ready,
                   poolVars, id, policy, value, n>>

CopyValue ==
    /\ pc = "batch" /\ cpc = "copy_value"
    /\ value_tensors' = Put(value_tensors, SlotOf(id), value)
    /\ cpc' = AfterStep("copy_value")
    /\ UNCHANGED <<confVars, trainVars, netVars, loopVars, input_tensors, policy_tensors, batch_ready,
                   poolVars, id, policy, value, n>>

\* self.batch_ready[id].set()
SetBatchReady ==
    /\ pc = "batch" /\ cpc = "set"
    /\ batch_ready' = Put(batch_ready, SlotOf(id), TRUE)
    /\ cpc' = AfterStep("set")
    /\ UNCHANGED <<confVars, trainVars, netVars, loopVars, input_tensors, policy_tensors,
                   value_tensors, poolVars, id, policy, value, n>>

\* size = self.games_played.value; if size > n: n = size
Progress ==
    /\ pc = "batch" /\ cpc = "progress"
    /\ n' = IF games_played > n THEN games_played ELSE n
    /\ cpc' = "while"
    /\ UNCHANGED <<confVars, trainVars, netVars, loopVars, slotVars, poolVars, id, policy, value>>

\* ------------------------------------------------------ specification
Controller ==
    \/ LoopHead
    \/ GenerateSelfPlayAgents
    \/ BatchLoopCheck
    \/ QueueGet
    \/ Process
    \/ CopyPolicy
    \/ CopyValue
    \/ SetBatchReady
    \/ Progress
    \/ SaveIterationSamples
    \/ ProcessGameResults
    \/ KillSelfPlayAgents
    \/ Train
    \/ CompareToRandom
    \/ ComparePastSetup
    \/ ArenaPlayGames
    \/ Gate
    \/ RollbackReload
    \/ RollbackRemove
    \/ Advance

Next ==
    \/ Controller
    \/ ProcessRaises
    \/ \E k \in 1..MaxWorkers : Agent(k)

Spec == Init /\ [][Next]_vars

PoolSpec == PoolInit /\ [][Next]_vars

\* train(iteration) on its own, for every iteration and history setting
TrainSpec == TrainInit /\ [][Train]_vars

\* the controller process and every agent process keep being scheduled
FairSpec ==
    /\ PoolSpec
    /\ WF_vars(Controller)
    /\ \A k \in 1..MaxWorkers : WF_vars(Agent(k))

\* the learn loop with model gating on and the arena settings of
\* DEFAULT_ARGS, both processes scheduled: the controller goes on while a
\* step of it is possible, and so does the one agent
FairLoopSpec ==
    /\ GatedInit /\ [][Next]_vars
    /\ WF_vars(Controller)
    /\ WF_vars(Agent(1))

TypeOK ==
    /\ pc \in {"while", "generate", "batch", "save", "results", "kill", "train", "random",
               "past", "arena", "gate", "reload", "remove", "advance", "closed", "aborted"}
    /\ cpc \in {"idle", "while", "get", "process", "copy_policy", "copy_value", "set",
                "progress"}
    /\ gate \in {"none", "accept", "rollback"}
    /\ gating_counter \in Nat /\ current_iter \in Nat /\ const_i \in Nat
    /\ Len(agents) \in {0, args.workers}
    /\ Len(input_tensors) = Len(agents) /\ Len(batch_ready) = Len(agents)

\* ------------------------------------------------------------ gating
Threshold == MinNextModelWinrate

\* a loop pass has just ended and compareToPast ran in it
PassEndedAfterCompare == pc = "while" /\ gate # "none"

Accepted ==
    /\ current_iter = i + 1
    /\ gating_counter = 0
    /\ removed = {}
    /\ Exists(i)

\* C1: whenever compareToPast ran in a loop pass and returned a win rate of
\* at least min_next_model_winrate, the pass ends with current_iter one
\* above its value at the start of the pass, gating_counter 0 and no
\* checkpoint file deleted, whatever gating_counter was before.
C1_GatingAcceptance ==
    (PassEndedAfterCompare /\ winrate >= Threshold) => (gate = "accept" /\ Accepted)

\* a pass that started at iteration 2 of a fresh run ends accepted after two
\* rejected passes (const_i is 5 after passes 1..4), so the counter was 2
C1_Witness ==
    /\ PassEndedAfterCompare /\ winrate >= Threshold /\ gate = "accept"
    /\ args.startIter = 1 /\ args.pastCompareFreq = 1 /\ args.max_gating_iters = 3
    /\ i = 2 /\ const_i = 5

ScenarioB ==
    args.model_gating /\ args.pastCompareFreq = 1 /\ args.max_gating_iters = 3

\* C2: with gating on, pastCompareFreq 1, max_gating_iters 3 and
\* gating_counter below 3, a win rate under the threshold makes the gate take
\* the rollback branch; that branch reloads the live network from checkpoint
\* i-1, deletes checkpoint i and adds exactly 1 to gating_counter, and the
\* pass ends with current_iter equal to i.
C2_GatingRejection ==
    /\ [][(pc = "gate" /\ ScenarioB /\ gating_counter < 3 /\ winrate < Threshold)
            => (pc' = "reload" /\ UNCHANGED <<gating_counter, current_iter>>)]_vars
    /\ [][(pc = "reload" /\ ScenarioB)
            => (pc' = "remove" /\ nnet' = checkpoint[i - 1]
                /\ UNCHANGED <<gating_counter, current_iter>>)]_vars
    /\ [][(pc = "remove" /\ ScenarioB)
            => (pc' = "advance" /\ Exists(i) /\ i \notin DOMAIN checkpoint'
                /\ gating_counter' = gating_counter + 1 /\ UNCHANGED nnet)]_vars
    /\ []((PassEndedAfterCompare /\ ScenarioB /\ gate = "rollback")
            => (current_iter = i /\ nnet = checkpoint[i - 1] /\ ~Exists(i)
                /\ removed = {i} /\ gating_counter \in 1..4))

C2_Witness ==
    /\ PassEndedAfterCompare /\ ScenarioB /\ gate = "rollback"
    /\ winrate = 40 /\ gating_counter = 1 /\ current_iter = i

\* the gate is evaluated with counter gc and a win rate under the threshold,
\* gating on and max_gating_iters 3
LosingGateAt(gc) ==
    /\ pc = "gate" /\ args.model_gating /\ args.max_gating_iters = 3
    /\ gating_counter = gc /\ winrate < Threshold

ForcedAccept ==
    /\ pc' = "advance" /\ gate' = "accept" /\ gating_counter' = 0
    /\ UNCHANGED <<checkpoint, removed, nnet>>

ForcedPassEnded ==
    /\ PassEndedAfterCompare /\ args.model_gating /\ args.max_gating_iters = 3
    /\ winrate < Threshold /\ gate = "accept"

\* C3 as stated: with max_gating_iters 3 and gating_counter 3 a win rate
\* under the threshold is accepted (current_iter advances, counter reset,
\* checkpoint kept).
C3_ForceAcceptAtBound ==
    /\ [][LosingGateAt(3) => ForcedAccept]_vars
    /\ [](ForcedPassEnded => Accepted)

\* C3 amended: the forced acceptance happens with gating_counter 4, one
\* above max_gating_iters 3.
C3_ForceAcceptAboveBound ==
    /\ [][LosingGateAt(4) => ForcedAccept]_vars
    /\ [](ForcedPassEnded => Accepted)

\* a fresh run rejects iteration 2 in passes 2..5 (counter 4) and accepts it
\* in pass 6 although it lost
C3_Witness ==
    /\ ForcedPassEnded /\ winrate = 40 /\ current_iter = i + 1 /\ gating_counter = 0
    /\ args.startIter = 1 /\ args.pastCompareFreq = 1 /\ i = 2 /\ const_i = 7

\* C4: gating_counter never exceeds max_gating_iters + 1, and a gate
\* evaluated with gating_counter above max_gating_iters accepts whatever the
\* win rate: counter reset to 0 and current_iter advanced at the end of the
\* pass.
C4_GatingBound ==
    /\ [](gating_counter <= args.max_gating_iters + 1)
    /\ [][(pc = "gate" /\ gating_counter > args.max_gating_iters)
            => (pc' = "advance" /\ gate' = "accept" /\ gating_counter' = 0)]_vars
    /\ []((PassEndedAfterCompare /\ gate = "accept") => current_iter = i + 1)

\* max_gating_iters 2: iteration 2 of a fresh run is rejected in passes 2..4
\* (counter 3) and accepted in pass 5 with a losing win rate
C4_Witness ==
    /\ PassEndedAfterCompare /\ args.model_gating /\ args.max_gating_iters = 2
    /\ winrate < Threshold /\ gate = "accept" /\ gating_counter = 0
    /\ args.startIter = 1 /\ args.pastCompareFreq = 1 /\ i = 2 /\ const_i = 6

\* the rollback branch is entered from the gate
TakesRollback == pc' = "reload"

TakesElse == pc' = "advance" /\ gate' = "accept" /\ gating_counter' = 0

\* C5 as stated: the gate rolls back exactly when the win rate is under the
\* threshold, gating is on and gating_counter <= max_gating_iters (any
\* max_gating_iters >= 0); otherwise it resets the counter and the pass
\* advances current_iter.
C5_GateRule ==
    [][pc = "gate" =>
        /\ TakesRollback <=> (winrate < Threshold /\ args.model_gating
                              /\ gating_counter <= args.max_gating_iters)
        /\ ~TakesRollback => TakesElse]_vars

\* C5 amended: the rollback also needs max_gating_iters to be non-zero.
C5_GateRuleNonZero ==
    /\ [][pc = "gate" =>
            /\ TakesRollback <=> (winrate < Threshold /\ args.model_gating
                                  /\ args.max_gating_iters # 0
                                  /\ gating_counter <= args.max_gating_iters)
            /\ ~TakesRollback => TakesElse]_vars
    /\ []((PassEndedAfterCompare /\ gate = "accept") => Accepted)

\* gating on with max_gating_iters 0: a losing model was accepted
C5_Witness ==
    /\ PassEndedAfterCompare /\ args.model_gating /\ args.max_gating_iters = 0
    /\ winrate = 40 /\ gate = "accept" /\ current_iter = i + 1

\* C10: with arenaBatched and arenaMCTS off, compareToPast forces arenaMCTS
\* on and goes on: learn() is not ended by the warning, the arena games are
\* played and the gate is applied.
C10_ConfigAutoCorrect ==
    ~(pc = "aborted" /\ error = "UserWarning" /\ args.arenaMCTS /\ gate = "none")

\* ------------------------------------------------------ slot hand-off
Queued(k) == \E p \in DOMAIN ready_queue : ready_queue[p] = k

QueuedOnce(k) == Cardinality({p \in DOMAIN ready_queue : ready_queue[p] = k}) = 1

\* id k was popped from the ready queue and its event is not set yet
Holding(k) == cpc \in {"process", "copy_policy", "copy_value", "set"} /\ id = k

\* the coordinator is at a statement that reads or writes slot k
CoordinatorTouches(k) ==
    pc = "batch" /\ cpc \in {"process", "copy_policy", "copy_value"} /\ id = k

Answered(k) ==
    /\ At(policy_tensors, k) = NetProcess(At(input_tensors, k)).policy
    /\ At(value_tensors, k) = NetProcess(At(input_tensors, k)).value

\* where a waiting agent's request is: queued, held by the coordinator, or
\* answered
Stage(k) ==
    <<Queued(k), Holding(k), At(batch_ready, k)>>

\* C6: per slot the accesses alternate worker write -> ready notification
\* -> coordinator read -> coordinator write -> completion signal -> worker
\* read: the coordinator touches slot k only while k is popped and not yet
\* answered and its agent waits; an agent never writes or reads its slot
\* while the coordinator touches it; a waiting agent's request is in exactly
\* one stage, and an agent that reads finds the answer to its own write.
C6_SlotAlternation ==
    \A k \in DOMAIN agents :
        LET a == agents[k] IN
        /\ CoordinatorTouches(a.id)
             => (a.pc = "waiting" /\ ~Queued(a.id) /\ ~At(batch_ready, a.id))
        /\ a.pc \in {"writing", "reading"} => ~CoordinatorTouches(a.id)
        /\ a.pc = "waiting"
             => /\ Stage(a.id) \in {<<TRUE, FALSE, FALSE>>, <<FALSE, TRUE, FALSE>>,
                                     <<FALSE, FALSE, TRUE>>}
                /\ Queued(a.id) => QueuedOnce(a.id)
        /\ a.pc # "waiting" => Stage(a.id) = <<FALSE, FALSE, FALSE>>
        /\ a.pc = "reading" => Answered(a.id)

\* the second agent reads its answer while the coordinator works on the
\* first agent's slot
C6_Witness ==
    /\ Len(agents) = 2
    /\ agents[2].pc = "reading" /\ agents[1].pc = "waiting"
    /\ CoordinatorTouches(0) /\ cpc = "copy_value"

\* C7: once every agent has finished (completed = workers) the batch loop
\* returns, and a get on an empty ready queue always comes back.
C7_BatcherTerminates ==
    /\ (pc = "batch" /\ completed = args.workers) ~> (pc = "save")
    /\ (pc = "batch" /\ cpc = "get" /\ ready_queue = <<>>) ~> (cpc # "get")

\* the last agent finished while the coordinator was already inside get()
C7_Witness ==
    /\ pc = "batch" /\ cpc = "get" /\ ready_queue = <<>>
    /\ args.workers = 2 /\ completed = 2

CoordinatorStep == pc = "batch" /\ cpc' # cpc

OthersUntouched(k) ==
    \A j \in 0..(Len(agents) - 1) :
        j # k => /\ At(policy_tensors', j) = At(policy_tensors, j)
                 /\ At(value_tensors', j) = At(value_tensors, j)
                 /\ At(batch_ready', j) = At(batch_ready, j)
                 /\ At(input_tensors', j) = At(input_tensors, j)

\* C8: every popped id gets one evaluation, of that agent's input buffer;
\* the results go to that agent's policy and value buffers; its event is set
\* only after both copies; no other agent's buffers or event change.
C8_OneEvaluationPerNotification ==
    /\ [][(pc = "batch" /\ cpc' = "process" /\ cpc # "process")
            => (cpc = "get" /\ ready_queue # <<>> /\ id' = Head(ready_queue)
                /\ ready_queue' = Tail(ready_queue))]_vars
    /\ [][(pc = "batch" /\ cpc = "process" /\ pc' = "batch")
            => \/ UNCHANGED <<cpc, id>>
               \/ /\ cpc' = "copy_policy" /\ id' = id
                  /\ policy' = NetProcess(At(input_tensors, id)).policy
                  /\ value' = NetProcess(At(input_tensors, id)).value]_vars
    /\ [][(CoordinatorStep /\ At(batch_ready', id') /\ ~At(batch_ready, id'))
            => (cpc = "set" /\ id' = id /\ Answered(id))]_vars
    /\ [][(CoordinatorStep /\ cpc' \notin {"idle", "process"}) => OthersUntouched(id)]_vars
    /\ []((pc = "batch" /\ cpc \in {"process", "copy_policy", "copy_value", "set"})
            => ~At(batch_ready, id))

\* with two agents, the second agent's request has just been answered
C8_Witness ==
    /\ pc = "batch" /\ cpc = "progress" /\ Len(agents) = 2 /\ id = 1
    /\ At(batch_ready, 1) /\ Answered(1) /\ At(input_tensors, 1) # 0
    /\ At(input_tensors, 0) # 0

\* C9: the ready queue never holds more than one entry per worker, and every
\* agent that waits on its event is answered (it goes on to read its
\* outputs) unless the evaluation function raised.
C9_NoStarvation ==
    /\ [](Len(ready_queue) <= args.workers)
    /\ \A k \in 1..MaxWorkers :
         (k \in DOMAIN agents /\ agents[k].pc = "waiting")
           ~> (pc = "aborted" \/ (k \in DOMAIN agents /\ agents[k].pc = "reading"))

\* both agents queued their requests before the coordinator popped one
C9_Witness ==
    /\ pc = "batch" /\ Len(agents) = 2 /\ Len(ready_queue) = 2
    /\ agents[1].pc = "waiting" /\ agents[2].pc = "waiting"

\* ------------------------------------------------- C11: evaluation failure
\* the files and weights the loop pass const_i leaves behind
ShardWrittenThisPass == i \in DOMAIN shards /\ shards[i] = const_i
TrainedThisPass ==
    \/ nnet = Trained(const_i)
    \/ \E k \in DOMAIN checkpoint : checkpoint[k] = Trained(const_i)

\* C11: when the evaluation function raises during processSelfPlayBatches of
\* iteration i, learn is left at once: this pass has written no shard, has
\* not trained and has saved no checkpoint, and current_iter and
\* gating_counter are as the pass found them (no step of the pass before
\* train touches them, the files or the live network).
C11_EvaluationFailureFatal ==
    /\ [](error = "EvaluationError"
            => /\ pc = "aborted"
               /\ current_iter = i
               /\ ~ShardWrittenThisPass
               /\ ~TrainedThisPass
               /\ gate = "none" /\ removed = {})
    /\ [][(pc \in {"while", "generate", "batch"})
            => (UNCHANGED <<current_iter, gating_counter, shards, checkpoint, nnet>>)]_vars

\* the evaluation function raised in the pass that retries iteration i after
\* a rollback: the counter is still 1 and the shard of i is the rejected
\* pass's
C11_Witness ==
    /\ error = "EvaluationError" /\ pc = "aborted"
    /\ gating_counter = 1 /\ current_iter = i
    /\ i \in DOMAIN shards /\ shards[i] = const_i - 1

\* --------------------------------------------- C12: teardown on fatal error
\* what killSelfPlayAgents leaves: no agent, no slot, an empty ready queue,
\* both counters 0
PoolReleased ==
    /\ agents = <<>>
    /\ input_tensors = <<>> /\ policy_tensors = <<>> /\ value_tensors = <<>>
    /\ batch_ready = <<>>
    /\ ready_queue = <<>>
    /\ completed = 0 /\ games_played = 0

\* C12: after the evaluation function raised, the pool is torn down: no
\* agent is left waiting on its event, and the slot lists, the ready queue
\* and the counters are as killSelfPlayAgents leaves them.
C12_TeardownOnFatalError ==
    error = "EvaluationError"
        => /\ PoolReleased
           /\ \A k \in DOMAIN agents : agents[k].pc # "waiting"

\* ------------------------------------------- C13: checkpoint deletion safety
\* the checkpoint files a step deletes
Deleted == DOMAIN checkpoint \ DOMAIN checkpoint'

\* C13 as stated: a deleted checkpoint k is not the one loaded in the live
\* network, and the live network was reloaded from checkpoint k - 1 before.
C13_DeleteAfterReloadOfPrevious ==
    [][\A k \in Deleted :
          /\ nnet # checkpoint[k]
          /\ Exists(k - 1) /\ nnet = checkpoint[k - 1]
          /\ nnet' = nnet]_vars

\* C13, amended: the only file ever deleted is the rejected checkpoint i, at
\* the remove step of a rollback; by then the live network has been reloaded
\* from checkpoint past = max(0, i - pastCompareFreq), which still exists,
\* differs from i and is not touched by the deletion.
C13_DeleteAfterReloadOfPast ==
    [][\A k \in Deleted :
          /\ pc = "remove" /\ gate = "rollback" /\ k = i
          /\ past = PastIter(i, args.pastCompareFreq)
          /\ past # k /\ Exists(past)
          /\ nnet = checkpoint[past] /\ nnet # checkpoint[k]
          /\ nnet' = nnet /\ past \in DOMAIN checkpoint'
          /\ checkpoint'[past] = checkpoint[past]]_vars

\* checkpoint i has just been deleted with the live network on checkpoint
\* i - 2 (pastCompareFreq = 2)
C13_Witness ==
    /\ pc = "advance" /\ gate = "rollback"
    /\ i \in removed /\ ~Exists(i)
    /\ args.pastCompareFreq = 2 /\ past = i - 2
    /\ Exists(past) /\ nnet = checkpoint[past]

\* ------------------------------------------------- C14: training window
\* w = min(max(4, (iteration + 4) // 2), numItersForTrainExamplesHistory)
WindowSize(iteration, history) ==
    IF (IF (iteration + 4) \div 2 > 4 THEN (iteration + 4) \div 2 ELSE 4) < history
    THEN (IF (iteration + 4) \div 2 > 4 THEN (iteration + 4) \div 2 ELSE 4)
    ELSE history

\* train(i) has loaded its shards and returned
TrainReturned == pc = "random" /\ error = "none"

\* C14: train(iteration) loads exactly the shards max(1, iteration - w) ..
\* iteration, each once, in increasing order; iteration 2 with history 10
\* loads the shards 1 and 2.
C14_TrainingWindow ==
    TrainReturned =>
        LET w == WindowSize(i, args.numItersForTrainExamplesHistory)
            lo == IF i - w > 1 THEN i - w ELSE 1
        IN  /\ {datasets[p] : p \in DOMAIN datasets} = lo..i
            /\ \A p, q \in DOMAIN datasets : p < q => datasets[p] < datasets[q]
            /\ (i = 2 /\ args.numItersForTrainExamplesHistory = 10
                    => w = 4 /\ datasets = <<1, 2>>)

\* Scenario D: train(2) with history 10 has returned
C14_Witness ==
    /\ TrainReturned
    /\ i = 2 /\ args.numItersForTrainExamplesHistory = 10 /\ datasets = <<1, 2>>

\* ------------------------------------------------- C15: shard immutability
\* C15 as stated: a shard that is on disk is never written again.
C15_ShardImmutable ==
    [][\A k \in DOMAIN shards : k \in DOMAIN shards' /\ shards'[k] = shards[k]]_vars

\* C15, amended: the shard files change only in saveIterationSamples, which
\* writes the shard of the iteration i of its pass and no other; it writes
\* over an existing shard only in a pass that follows a rollback (gating on,
\* max_gating_iters not 0, more passes made than the iteration counter
\* advanced).
C15_ShardRewrittenOnlyAfterRollback ==
    [][(shards' # shards)
         => /\ pc = "save"
            /\ DOMAIN shards' = DOMAIN shards \cup {i}
            /\ \A k \in DOMAIN shards \ {i} : shards'[k] = shards[k]
            /\ shards'[i] = const_i
            /\ (i \in DOMAIN shards
                  => /\ args.model_gating /\ args.max_gating_iters # 0
                     /\ const_i - args.startIter > i - args.startIter)]_vars

\* the pass that retries iteration i after one rollback has written the
\* shard of i, which the rejected pass had written before
C15_Witness ==
    /\ pc = "results" /\ args.pastCompareFreq = 1 /\ gating_counter = 1
    /\ const_i = i + 1
    /\ i \in DOMAIN shards /\ shards[i] = const_i

\* ------------------------------------------------------ C16: pool lifetime
\* C16: at the entry of generateSelfPlayAgents, in the first pass and in
\* every later one, there is no agent and no slot, the ready queue is empty
\* and both counters are 0; so the phase has exactly args.workers agents and
\* slots, agent k at list index k with a slot of its own.
C16_PoolScopedToPhase ==
    /\ pc = "generate" => PoolReleased
    /\ pc = "batch"
         => /\ Len(agents) = args.workers
            /\ Len(input_tensors) = args.workers
            /\ Len(policy_tensors) = args.workers
            /\ Len(value_tensors) = args.workers
            /\ Len(batch_ready) = args.workers
            /\ \A k \in DOMAIN agents : agents[k].id = k - 1
            /\ completed <= args.workers /\ games_played <= GamesPerIteration

\* the second self-play phase of a run with two workers has its agents
C16_Witness ==
    /\ pc = "batch" /\ cpc = "while" /\ const_i > args.startIter
    /\ args.workers = 2 /\ Len(agents) = 2 /\ agents[2].id = 1
    /\ agents[1].pc = "search" /\ agents[2].pc = "search"
    /\ completed = 0 /\ games_played = 0

\* ---------------------------------------------------- C17: no infinite stall
\* the loop passes made so far
Passes == const_i - args.startIter

\* each of at most NumIters iteration numbers is rejected at most
\* max_gating_iters + 1 times in a row, and a rejection costs at most
\* pastCompareFreq passes (the rejected one and those that catch up)
PassBound == NumIters * (1 + (args.max_gating_iters + 1) * args.pastCompareFreq)

\* C17: whatever the win rates are, the number of loop passes is bounded and
\* learn leaves its loop with current_iter above numIters, provided the
\* phases come to an end (the evaluation function does not raise).
C17_NoInfiniteStall ==
    /\ [](Passes <= PassBound)
    /\ [](pc = "closed" => current_iter > NumIters)
    /\ (pc = "while") ~> (pc = "closed" \/ error = "EvaluationError")

\* a run whose past comparisons were all lost has ended: every iteration
\* took max_gating_iters + 1 rollbacks and was then accepted
C17_Witness ==
    /\ pc = "closed" /\ current_iter = NumIters + 1
    /\ args.model_gating /\ args.max_gating_iters = MaxGatingIters
    /\ args.pastCompareFreq = 1
    /\ Passes = (NumIters + 1 - args.startIter) * (MaxGatingIters + 2)

\* ------------------------------------- C18: the iteration after a rollback
\* a pass whose model the gate rejected has ended: the next pass is about
\* to start
RejectedPassEnded == PassEndedAfterCompare /\ gate = "rollback"

C19_AtMostWindowSize ==
    TrainReturned
        => Len(datasets) <= WindowSize(i, args.numItersForTrainExamplesHistory)

\* ------------------------------------- C20: live network and current_iter
\* C20: whenever learn is at the head of its loop, the checkpoint file
\* current_iter - 1 exists and the live network holds its weights: after
\* construction, after a pass without comparison, after an accepted model
\* and after a rollback, for every pastCompareFreq.
C20_LiveNetworkIsPreviousCheckpoint ==
    pc = "while"
        => /\ Exists(current_iter - 1)
           /\ nnet = checkpoint[current_iter - 1]

\* the loop head after iteration 3 was rejected with pastCompareFreq = 2:
\* the live network is checkpoint 1 again and current_iter is 2
C20_Witness ==
    /\ pc = "while" /\ gate = "rollback" /\ args.pastCompareFreq = 2
    /\ i = 3 /\ current_iter = 2
    /\ Exists(1) /\ nnet = checkpoint[1] /\ ~Exists(3)

====
